---- MODULE Spec2Model ----
(***************************************************************************)
(* A model of deque_t<T, allocator> (src/deque/deque.h) with T = int and   *)
(* the malloc/free allocator my_allocator_t (src/deque/allocator.h).       *)
(*                                                                         *)
(* The heap is a fixed set of node-sized blocks; a pointer is a block      *)
(* address or NULL.  Every operation of the class is a function from a     *)
(* machine state (a record of the deques' fields and the heap) to the      *)
(* machine state it leaves, written statement by statement from the        *)
(* source; an action applies one operation to the variables.               *)
(*                                                                         *)
(* Undefined behaviour.  An access through a null pointer or through a     *)
(* pointer to a released block, and a release of a block that is not       *)
(* allocated, are undefined.  The operation that performs one ends the     *)
(* defined part of the run: the action's outcome is then a choice between  *)
(* status "crashed" (the process is stopped at the access, nothing of the  *)
(* operation is visible) and status "undefined" (the program goes on in a  *)
(* state the language does not determine), and no further action is taken. *)
(***************************************************************************)
EXTENDS Integers, Sequences, FiniteSets, TLC

\* ------------------------------------------------------------------ bounds

\* Number of node-sized blocks the heap can hand out.
MaxNodes == 3
\* Element values are 1..MaxVal.
MaxVal == 2
\* Number of pushes followed in the single-deque specifications.
MaxPushes == 3
\* Number of operations a run of the two-deque specification makes.
MaxOps == 4

\* ------------------------------------------------------------ the machine

\* nullptr.
NULL == 0
Node == 1..MaxNodes
Ptr == Node \cup {NULL}
Values == 1..MaxVal
\* The deque objects of the program: two regions of storage for a deque_t.
Deq == {"A", "B"}
\* size is a size_t.  A value is kept as the representative of its residue
\* modulo 2^64 that lies in -1..SizeCap: decrementing 0 gives -1, which
\* stands for 2^64 - 1.  Operations that would leave the range are not taken.
SizeCap == MaxNodes + 1
\* What the model keeps for the value field of a block that holds no node,
\* and for an absent element: zeroed bytes.
NoValue == NULL

\* The messages of the std::exception objects the class throws.
EmptyMsg == "Deque is empty"
EndMsg == "Trying to use end iterator"
CEndMsg == "Try to use end iterator"
BeginMsg == "Trying to use begin iterator"

VARIABLES
  head,         \* head[d]: deque d's head field
  tail,         \* tail[d]: deque d's tail field
  size,         \* size[d]: deque d's size field
  constructed,  \* constructed[d]: d's lifetime has begun and not ended
  value,        \* value[n]: node n's value field
  prev,         \* prev[n]: node n's prev field
  next,         \* next[n]: node n's next field
  allocated,    \* the blocks alloc has returned and del has not yet taken back
  it,           \* the iterator object of the program: [kind, curNode]
  status,       \* "running", or how the run ended: "crashed", "undefined"
  op,           \* the last operation called: [name, deq]
  err,          \* the exception it threw, "none" if it returned
  ret,          \* what it returned: [tag, node, val]
  calls,        \* the allocator calls it made: [alloc, del, failed, twice],
                \* and linked: a node was still referenced when del took it
  ref,          \* the abstract list the single-deque specifications keep
  pushed,       \* pushes completed in the single-deque specifications
  popped,       \* pops completed in the single-deque specifications
  steps,        \* operations called in the two-deque specification
  copied,       \* one deque was made a copy of the other, and since then
                \* only pushes, pops, Clear and element accesses were called
  loop          \* the range-for loop of a copy in progress, in the
                \* specification that runs it round by round:
                \* [pc, dst, want, pushes]

vars == <<head, tail, size, constructed, value, prev, next, allocated, it,
          status, op, err, ret, calls, ref, pushed, popped, steps, copied,
          loop>>

NoRet == [tag |-> "none", node |-> NULL, val |-> NoValue]

\* The machine state an operation starts from: the program's memory, and the
\* record of what the operation has done so far.
\*   fault: the first undefined access made ("none" if none)
\*   oom:   alloc returned no block
\*   linked: at a call of del, a node other than the one handed over still
\*           had a prev or next link to it
Machine ==
  [head |-> head, tail |-> tail, size |-> size, constructed |-> constructed,
   value |-> value, prev |-> prev, next |-> next, allocated |-> allocated,
   it |-> it, err |-> "none", fault |-> "none", oom |-> FALSE, ret |-> NoRet,
   nAlloc |-> 0, nDel |-> 0, linked |-> FALSE]

\* An operation goes on only while it has neither thrown nor left the
\* defined part of the language.
Going(s) == s.err = "none" /\ s.fault = "none"

\* An access (read or write) through pointer p.
Access(s, p) ==
  IF ~Going(s) THEN s
  ELSE IF p = NULL THEN [s EXCEPT !.fault = "null"]
  ELSE IF p \notin s.allocated THEN [s EXCEPT !.fault = "dangling"]
  ELSE s

\* throw std::exception(msg).
Throw(s, msg) == IF Going(s) THEN [s EXCEPT !.err = msg] ELSE s

\* my_allocator_t::alloc, i.e. malloc: blk is the block malloc returns, a
\* block not in use, or NULL when it cannot satisfy the request.
AllocCall(s, blk) ==
  IF ~Going(s) THEN s
  ELSE IF blk = NULL THEN [s EXCEPT !.oom = TRUE, !.nAlloc = @ + 1]
  ELSE [s EXCEPT !.allocated = @ \cup {blk}, !.nAlloc = @ + 1]

\* The block malloc returns when it searches the free blocks in the order
\* pref (a permutation of the blocks): the first free one, NULL if none.
FirstFree(s, pref) ==
  LET free == {i \in 1..MaxNodes : pref[i] \notin s.allocated}
  IN IF free = {} THEN NULL
     ELSE pref[CHOOSE i \in free : \A j \in free : i <= j]

\* The nodes in use, other than p, whose prev or next field points at p.
LinkedTo(s, p) == {n \in s.allocated \ {p} : s.prev[n] = p \/ s.next[n] = p}

\* my_allocator_t::del, i.e. free.  free(NULL) does nothing; a block that is
\* not allocated is a double free.  The allocator owns a released block's
\* bytes: the model keeps no contents for it.
DelCall(s, p) ==
  IF ~Going(s) THEN s
  ELSE IF p = NULL THEN [s EXCEPT !.nDel = @ + 1]
  ELSE IF p \notin s.allocated THEN [s EXCEPT !.fault = "double free", !.nDel = @ + 1]
  ELSE [s EXCEPT !.allocated = @ \ {p}, !.nDel = @ + 1,
                 !.linked = @ \/ LinkedTo(s, p) # {},
                 !.value[p] = NoValue, !.prev[p] = NULL, !.next[p] = NULL]

\* ------------------------------------------------------------- deque_t

\* bool IsEmpty() const
IsEmpty(d) == head[d] = NULL

\* size_t Size() const
Size(d) == size[d]

\* PushFront without its statement  if (tail == nullptr) tail = head;
PushFrontNoTail(s, d, elem, tmp) ==
  LET s0 == AllocCall(s, tmp)
      s1 == Access(s0, tmp)
  IN IF ~Going(s1) THEN s1 ELSE
     LET s2 == [s1 EXCEPT !.value[tmp] = elem,
                          !.next[tmp] = s1.head[d],
                          !.prev[tmp] = NULL]
         h  == s2.head[d]
         s3 == IF h # NULL THEN Access(s2, h) ELSE s2
     IN IF ~Going(s3) THEN s3 ELSE
        LET s4 == IF h # NULL THEN [s3 EXCEPT !.prev[h] = tmp] ELSE s3
            s5 == [s4 EXCEPT !.head[d] = tmp]
        IN [s5 EXCEPT !.size[d] = @ + 1]

\* void PushFront(T const& elem) and void PushFront(T&& elem): the two
\* bodies differ only in std::move(elem), which for int is a copy.
\* tmp is the block alloc returns.
PushFront(s, d, elem, tmp) ==
  LET s0 == AllocCall(s, tmp)
      s1 == Access(s0, tmp)                       \* tmp->value = elem
  IN IF ~Going(s1) THEN s1 ELSE
     LET s2 == [s1 EXCEPT !.value[tmp] = elem,
                          !.next[tmp] = s1.head[d],
                          !.prev[tmp] = NULL]
         h  == s2.head[d]
         s3 == IF h # NULL THEN Access(s2, h) ELSE s2   \* head->prev = tmp
     IN IF ~Going(s3) THEN s3 ELSE
        LET s4 == IF h # NULL THEN [s3 EXCEPT !.prev[h] = tmp] ELSE s3
            s5 == [s4 EXCEPT !.head[d] = tmp]
            s6 == IF s5.tail[d] = NULL
                  THEN [s5 EXCEPT !.tail[d] = s5.head[d]] ELSE s5
        IN [s6 EXCEPT !.size[d] = @ + 1]

\* void PushBack(T const& elem) and void PushBack(T&& elem).
PushBack(s, d, elem, tmp) ==
  LET s0 == AllocCall(s, tmp)
      s1 == Access(s0, tmp)                       \* tmp->value = elem
  IN IF ~Going(s1) THEN s1 ELSE
     LET s2 == [s1 EXCEPT !.value[tmp] = elem,
                          !.next[tmp] = NULL,
                          !.prev[tmp] = s1.tail[d]]
         t  == s2.tail[d]
         s3 == IF t # NULL THEN Access(s2, t) ELSE s2   \* tail->next = tmp
     IN IF ~Going(s3) THEN s3 ELSE
        LET s4 == IF t # NULL THEN [s3 EXCEPT !.next[t] = tmp] ELSE s3
            s5 == [s4 EXCEPT !.tail[d] = tmp]
            s6 == IF s5.head[d] = NULL
                  THEN [s5 EXCEPT !.head[d] = s5.tail[d]] ELSE s5
        IN [s6 EXCEPT !.size[d] = @ + 1]

\* PopFront without its last statement  size--;
PopFrontKeepsSize(s, d) ==
  IF ~Going(s) THEN s
  ELSE IF s.head[d] = NULL THEN Throw(s, EmptyMsg) ELSE
  LET tmp == s.head[d]
      s1 == Access(s, tmp)
  IN IF ~Going(s1) THEN s1 ELSE
     LET s2 == [s1 EXCEPT !.head[d] = s1.next[tmp]]
         s3 == DelCall(s2, tmp)
         h  == s3.head[d]
     IN IF ~Going(s3) THEN s3 ELSE
        LET s4 == IF h = NULL THEN [s3 EXCEPT !.tail[d] = NULL]
                  ELSE Access(s3, h)
        IN IF ~Going(s4) THEN s4 ELSE
           IF h = NULL THEN s4 ELSE [s4 EXCEPT !.prev[h] = NULL]

\* void PopFront()
PopFront(s, d) ==
  IF ~Going(s) THEN s
  ELSE IF s.head[d] = NULL THEN Throw(s, EmptyMsg) ELSE
  LET tmp == s.head[d]
      s1 == Access(s, tmp)                        \* head = head->next
  IN IF ~Going(s1) THEN s1 ELSE
     LET s2 == [s1 EXCEPT !.head[d] = s1.next[tmp]]
         s3 == DelCall(s2, tmp)                   \* alloc.del((void* )tmp)
         h  == s3.head[d]
     IN IF ~Going(s3) THEN s3 ELSE
        LET s4 == IF h = NULL THEN [s3 EXCEPT !.tail[d] = NULL]
                  ELSE Access(s3, h)              \* head->prev = nullptr
        IN IF ~Going(s4) THEN s4 ELSE
           LET s5 == IF h = NULL THEN s4 ELSE [s4 EXCEPT !.prev[h] = NULL]
           IN [s5 EXCEPT !.size[d] = @ - 1]

\* void PopBack()
PopBack(s, d) ==
  IF ~Going(s) THEN s
  ELSE IF s.tail[d] = NULL THEN Throw(s, EmptyMsg) ELSE
  LET tmp == s.tail[d]
      s1 == Access(s, tmp)                        \* tail = tail->prev
  IN IF ~Going(s1) THEN s1 ELSE
     LET s2 == [s1 EXCEPT !.tail[d] = s1.prev[tmp]]
         s3 == DelCall(s2, tmp)                   \* alloc.del((void* )tmp)
         t  == s3.tail[d]
     IN IF ~Going(s3) THEN s3 ELSE
        LET s4 == IF t = NULL THEN [s3 EXCEPT !.head[d] = NULL]
                  ELSE Access(s3, t)              \* tail->next = nullptr
        IN IF ~Going(s4) THEN s4 ELSE
           LET s5 == IF t = NULL THEN s4 ELSE [s4 EXCEPT !.next[t] = NULL]
           IN [s5 EXCEPT !.size[d] = @ - 1]

\* T& GetFront(): the reference returned is to head->value.
GetFront(s, d) ==
  IF ~Going(s) THEN s
  ELSE IF s.head[d] = NULL THEN Throw(s, EmptyMsg) ELSE
  LET h  == s.head[d]
      s1 == Access(s, h)
  IN IF ~Going(s1) THEN s1
     ELSE [s1 EXCEPT !.ret = [tag |-> "ref", node |-> h, val |-> s1.value[h]]]

\* T& GetBack(): the reference returned is to tail->value.
GetBack(s, d) ==
  IF ~Going(s) THEN s
  ELSE IF s.tail[d] = NULL THEN Throw(s, EmptyMsg) ELSE
  LET t  == s.tail[d]
      s1 == Access(s, t)
  IN IF ~Going(s1) THEN s1
     ELSE [s1 EXCEPT !.ret = [tag |-> "ref", node |-> t, val |-> s1.value[t]]]

\* d.GetFront() = elem (back = FALSE) and d.GetBack() = elem (back = TRUE):
\* an element write through the reference the call returns.
ElementWrite(s, d, elem, back) ==
  LET s1 == IF back THEN GetBack(s, d) ELSE GetFront(s, d)
  IN IF ~Going(s1) THEN s1
     ELSE [s1 EXCEPT !.value[s1.ret.node] = elem]

\* void Clear(void): while (head) PopBack();
RECURSIVE Clear(_, _)
Clear(s, d) ==
  IF ~Going(s) \/ s.head[d] = NULL THEN s
  ELSE Clear(PopBack(s, d), d)

\* for (auto& i : deque) PushBack(i); as the compiler expands it for the
\* deque `this` = d: an iterator cur runs from deque.begin() until it equals
\* deque.end(); each round dereferences it (operator*), calls PushBack on
\* the element and advances it (operator++).  pref is the order in which
\* malloc searches the free blocks.
RECURSIVE CopyLoop(_, _, _, _)
CopyLoop(s, d, cur, pref) ==
  IF ~Going(s) \/ cur = NULL THEN s
  ELSE LET s1 == Access(s, cur)                          \* *it
       IN IF ~Going(s1) THEN s1 ELSE
          LET s2 == PushBack(s1, d, s1.value[cur], FirstFree(s1, pref))
              s3 == Access(s2, cur)                      \* ++it
          IN IF ~Going(s3) THEN s3
             ELSE CopyLoop(s3, d, s3.next[cur], pref)

\* The member initializers head(nullptr), tail(nullptr), size(0).
InitEmpty(s, d) ==
  [s EXCEPT !.head[d] = NULL, !.tail[d] = NULL, !.size[d] = 0,
            !.constructed[d] = TRUE]

\* deque_t()
DefaultCtor(s, d) == InitEmpty(s, d)

\* deque_t(std::initializer_list<T> list): PushBack of each element in turn.
RECURSIVE PushAll(_, _, _, _)
PushAll(s, d, list, pref) ==
  IF ~Going(s) \/ list = <<>> THEN s
  ELSE PushAll(PushBack(s, d, Head(list), FirstFree(s, pref)), d, Tail(list), pref)

ListCtor(s, d, list, pref) == PushAll(InitEmpty(s, d), d, list, pref)

\* deque_t(deque_t const& deque)
CopyCtor(s, d, src, pref) ==
  LET s1 == InitEmpty(s, d)
  IN CopyLoop(s1, d, s1.head[src], pref)

\* deque_t(deque_t&& deque).  The constructor has no member initializers.
\* Its second and fifth statements name `end`, which is the member function
\* end(), not a field: no statement reads or writes tail of either deque.
\* The new object's tail keeps what its storage held: junk.
MoveCtor(s, d, src, junk) ==
  LET s1 == [s EXCEPT !.constructed[d] = TRUE, !.tail[d] = junk]
      s2 == [s1 EXCEPT !.head[d] = s1.head[src]]
      s3 == [s2 EXCEPT !.size[d] = s2.size[src]]
      s4 == [s3 EXCEPT !.head[src] = NULL]
  IN [s4 EXCEPT !.size[src] = 0]

\* void operator=(deque_t const& deque)
CopyAssign(s, d, src, pref) ==
  LET s1 == Clear(s, d)
  IN CopyLoop(s1, d, s1.head[src], pref)

\* void operator=(deque_t&& deque).  As in the move constructor, the
\* statements that name `end` touch no field.
MoveAssign(s, d, src) ==
  LET s1 == Clear(s, d)
  IN IF ~Going(s1) THEN s1 ELSE
     LET s2 == [s1 EXCEPT !.head[d] = s1.head[src]]
         s3 == [s2 EXCEPT !.size[d] = s2.size[src]]
         s4 == [s3 EXCEPT !.head[src] = NULL]
     IN [s4 EXCEPT !.size[src] = 0]

\* deque_t& AddOtherDeque(deque_t const& deque)
AddOtherDequeCopy(s, d, src, pref) == CopyLoop(s, d, s.head[src], pref)

\* deque_t& AddOtherDeque(deque_t&& deque)
AddOtherDequeMove(s, d, src) ==
  IF ~Going(s) THEN s
  ELSE IF s.tail[d] = NULL THEN
    LET s1 == [s EXCEPT !.head[d] = s.head[src]]
        s2 == [s1 EXCEPT !.tail[d] = s1.tail[src]]
        s3 == [s2 EXCEPT !.size[d] = s2.size[src]]
        s4 == [s3 EXCEPT !.head[src] = NULL]
        s5 == [s4 EXCEPT !.tail[src] = NULL]
    IN [s5 EXCEPT !.size[src] = 0]
  ELSE IF s.head[src] # NULL THEN
    LET t  == s.tail[d]
        s1 == Access(s, t)                        \* tail->next = deque.head
    IN IF ~Going(s1) THEN s1 ELSE
       LET s2 == [s1 EXCEPT !.next[t] = s1.head[src]]
           h  == s2.head[src]
           s3 == Access(s2, h)                    \* deque.head->prev = tail
       IN IF ~Going(s3) THEN s3 ELSE
          LET s4 == [s3 EXCEPT !.prev[h] = s3.tail[d]]
              s5 == [s4 EXCEPT !.tail[d] = s4.tail[src]]
              s6 == [s5 EXCEPT !.size[d] = @ + s5.size[src]]
              s7 == [s6 EXCEPT !.head[src] = NULL]
              s8 == [s7 EXCEPT !.tail[src] = NULL]
          IN [s8 EXCEPT !.size[src] = 0]
  ELSE s

\* ~deque_t(): Clear(), then the object's lifetime ends; the model keeps
\* nothing for the storage of an object that is not alive.  A destructor is
\* noexcept: an exception leaving Clear() calls std::terminate.
Dtor(s, d) ==
  LET s1 == Clear(s, d)
      s2 == IF s1.err # "none"
            THEN [s1 EXCEPT !.err = "none", !.fault = "terminate"] ELSE s1
  IN IF ~Going(s2) THEN s2
     ELSE [s2 EXCEPT !.head[d] = NULL, !.tail[d] = NULL, !.size[d] = 0,
                     !.constructed[d] = FALSE]

\* ------------------------------------------------------------ iterators

IterKinds == {"iterator", "const_iterator", "reverse_iterator"}
NoIter == [kind |-> "iterator", curNode |-> NULL]

\* iterator begin() const, const_iterator cbegin() const,
\* reverse_iterator rbegin()
BeginOf(s, d, kind) ==
  [s EXCEPT !.it = [kind |-> kind,
                    curNode |-> IF kind = "reverse_iterator"
                                THEN s.tail[d] ELSE s.head[d]]]

\* iterator end() const, const_iterator cend() const, reverse_iterator rend()
EndOf(s, d, kind) ==
  [s EXCEPT !.it = [kind |-> kind, curNode |-> NULL]]

\* The message operator++ throws at the end position: iterator's differs
\* from that of const_iterator and reverse_iterator.
IncMsg(kind) == IF kind = "iterator" THEN EndMsg ELSE CEndMsg

\* operator++ following the link of the other iterator class.
ForwardSwapped(s, kind, n) == IF kind = "reverse_iterator" THEN s.next[n] ELSE s.prev[n]

\* The link operator++ follows: next, and prev for a reverse_iterator.
Forward(s, kind, n) == IF kind = "reverse_iterator" THEN s.prev[n] ELSE s.next[n]

\* operator-- following the link of the other iterator class.
BackwardSwapped(s, kind, n) == IF kind = "reverse_iterator" THEN s.prev[n] ELSE s.next[n]

\* The link operator-- follows: prev, and next for a reverse_iterator.
Backward(s, kind, n) == IF kind = "reverse_iterator" THEN s.next[n] ELSE s.prev[n]

\* operator++() (post = FALSE) and operator++(int) (post = TRUE) of the
\* three iterator classes.  The prefix form returns the iterator itself,
\* the postfix form a copy made before the step.
Increment(s, post) ==
  LET cur == s.it.curNode
  IN IF cur = NULL THEN Throw(s, IncMsg(s.it.kind)) ELSE
     LET s1 == Access(s, cur)                 \* curNode = curNode->next
     IN IF ~Going(s1) THEN s1 ELSE
        LET nxt == Forward(s1, s1.it.kind, cur)
        IN [s1 EXCEPT !.it.curNode = nxt,
                      !.ret = [tag |-> "iter",
                               node |-> IF post THEN cur ELSE nxt,
                               val |-> NoValue]]

\* operator--() and operator--(int) of the three iterator classes.  The
\* first statement reads curNode->prev (curNode->next in reverse_iterator)
\* whatever curNode is; the test curNode == nullptr comes after it.  d is
\* the deque whose tail (head for a reverse_iterator) that test's branch
\* names.
Decrement(s, d, post) ==
  LET cur == s.it.curNode
      s1  == Access(s, cur)                   \* if (curNode->prev == nullptr)
  IN IF ~Going(s1) THEN s1
     ELSE IF Backward(s1, s1.it.kind, cur) = NULL THEN Throw(s1, BeginMsg)
     ELSE LET nxt == IF cur = NULL
                     THEN (IF s1.it.kind = "reverse_iterator"
                           THEN s1.head[d] ELSE s1.tail[d])
                     ELSE Backward(s1, s1.it.kind, cur)
          IN [s1 EXCEPT !.it.curNode = nxt,
                        !.ret = [tag |-> "iter",
                                 node |-> IF post THEN cur ELSE nxt,
                                 val |-> NoValue]]

\* operator* without its test  if (curNode == nullptr) throw ...
DereferenceUnchecked(s) ==
  LET cur == s.it.curNode
      s1  == Access(s, cur)
  IN IF ~Going(s1) THEN s1
     ELSE [s1 EXCEPT !.ret = [tag |-> "ref", node |-> cur,
                              val |-> s1.value[cur]]]

\* operator*() of the three iterator classes.
Dereference(s) ==
  LET cur == s.it.curNode
  IN IF cur = NULL THEN Throw(s, CEndMsg) ELSE
     LET s1 == Access(s, cur)
     IN IF ~Going(s1) THEN s1
        ELSE [s1 EXCEPT !.ret = [tag |-> "ref", node |-> cur,
                                 val |-> s1.value[cur]]]

\* -------------------------------------------------------------- actions

\* The orders in which malloc may search the free blocks.
Perms == {p \in [1..MaxNodes -> Node] : \A i, j \in 1..MaxNodes : i # j => p[i] # p[j]}

\* The initializer lists the program constructs deques from.
MaxList == 2
Lists == UNION {[1..n -> Values] : n \in 0..MaxList}

Called(name, d, src, elem) == [name |-> name, deq |-> d, src |-> src]

\* The calls that make a deque a copy of another, and the calls the copy and
\* its source may receive afterwards while they count as copy and source.
CopyNames == {"deque_t(const&)", "operator=(const&)"}
MutNames == {"PushFront", "PushBack", "PopFront", "PopBack", "Clear", "GetFront() ="}
ReadNames == {"GetFront", "GetBack"}

\* The program's memory and the operation's results become those of s.
Install(s) ==
  /\ head' = s.head
  /\ tail' = s.tail
  /\ size' = s.size
  /\ constructed' = s.constructed
  /\ value' = s.value
  /\ prev' = s.prev
  /\ next' = s.next
  /\ allocated' = s.allocated
  /\ it' = s.it
  /\ err' = s.err
  /\ ret' = s.ret

\* What is left of a run that an undefined access ended: the process and
\* its memory are gone (a crash) or are no longer determined by the language;
\* the model keeps only the call and how the run ended.
Gone ==
  [head |-> [d \in Deq |-> NULL], tail |-> [d \in Deq |-> NULL],
   size |-> [d \in Deq |-> 0], constructed |-> [d \in Deq |-> FALSE],
   value |-> [n \in Node |-> NoValue], prev |-> [n \in Node |-> NULL],
   next |-> [n \in Node |-> NULL], allocated |-> {}, it |-> NoIter,
   err |-> "none", ret |-> NoRet]

\* The call o ends in machine state s.  After an undefined access the run
\* is over: the process crashed at the access, or it goes on outside the
\* language's rules.  After std::terminate the run is over as well.
Finish(s, o) ==
  /\ \A d \in Deq : s.size[d] \in -1..SizeCap
  /\ op' = o
  /\ calls' = [alloc |-> s.nAlloc, del |-> s.nDel, failed |-> s.oom,
               twice |-> s.fault = "double free", linked |-> s.linked]
  /\ copied' = IF s.fault # "none" THEN FALSE
               ELSE IF o.name \in CopyNames
               THEN o.src # o.deq /\ s.err = "none"
               ELSE copied /\ o.name \in MutNames \cup ReadNames
  /\ IF s.fault = "none" THEN status' = "running" /\ Install(s)
     ELSE IF s.fault = "terminate" THEN status' = "terminated" /\ Install(Gone)
     ELSE status' \in {"crashed", "undefined"} /\ Install(Gone)

NoGhost == UNCHANGED <<ref, pushed, popped>>

\* No copy loop is in progress.
NoLoop == [pc |-> "idle", dst |-> "-", want |-> 0, pushes |-> 0]

\* A call whose allocations malloc all satisfies.  The program is one
\* thread: a call starts only when no other is in progress.
Runs(s, o) ==
  /\ status = "running"
  /\ loop.pc = "idle"
  /\ steps < MaxOps
  /\ ~s.oom
  /\ Finish(s, o)
  /\ steps' = steps + 1
  /\ UNCHANGED loop

ActDefaultCtor(d) ==
  /\ ~constructed[d]
  /\ Runs(DefaultCtor(Machine, d), Called("deque_t()", d, "-", NoValue))
  /\ NoGhost

ActListCtor(d) ==
  /\ ~constructed[d]
  /\ \E list \in Lists, pref \in Perms :
       Runs(ListCtor(Machine, d, list, pref), Called("deque_t(list)", d, "-", NoValue))
  /\ NoGhost

ActCopyCtor(d, src) ==
  /\ ~constructed[d] /\ constructed[src] /\ src # d
  /\ \E pref \in Perms :
       Runs(CopyCtor(Machine, d, src, pref), Called("deque_t(const&)", d, src, NoValue))
  /\ NoGhost

ActMoveCtor(d, src) ==
  /\ ~constructed[d] /\ constructed[src] /\ src # d
  /\ \E junk \in Ptr :
       Runs(MoveCtor(Machine, d, src, junk), Called("deque_t(&&)", d, src, NoValue))
  /\ NoGhost

ActDtor(d) ==
  /\ constructed[d]
  /\ Runs(Dtor(Machine, d), Called("~deque_t", d, "-", NoValue))
  /\ NoGhost

ActCopyAssign(d, src) ==
  /\ constructed[d] /\ constructed[src]
  /\ \E pref \in Perms :
       Runs(CopyAssign(Machine, d, src, pref), Called("operator=(const&)", d, src, NoValue))
  /\ NoGhost

ActMoveAssign(d, src) ==
  /\ constructed[d] /\ constructed[src]
  /\ Runs(MoveAssign(Machine, d, src), Called("operator=(&&)", d, src, NoValue))
  /\ NoGhost

ActPushFront(d, elem) ==
  /\ constructed[d]
  /\ \E tmp \in Node \ allocated :
       Runs(PushFront(Machine, d, elem, tmp), Called("PushFront", d, "-", elem))
  /\ NoGhost

ActPushBack(d, elem) ==
  /\ constructed[d]
  /\ \E tmp \in Node \ allocated :
       Runs(PushBack(Machine, d, elem, tmp), Called("PushBack", d, "-", elem))
  /\ NoGhost

ActPopFront(d) ==
  /\ constructed[d]
  /\ Runs(PopFront(Machine, d), Called("PopFront", d, "-", NoValue))
  /\ NoGhost

ActPopBack(d) ==
  /\ constructed[d]
  /\ Runs(PopBack(Machine, d), Called("PopBack", d, "-", NoValue))
  /\ NoGhost

ActGetFront(d) ==
  /\ constructed[d]
  /\ Runs(GetFront(Machine, d), Called("GetFront", d, "-", NoValue))
  /\ NoGhost

ActGetBack(d) ==
  /\ constructed[d]
  /\ Runs(GetBack(Machine, d), Called("GetBack", d, "-", NoValue))
  /\ NoGhost

ActAddOtherDequeCopy(d, src) ==
  /\ constructed[d] /\ constructed[src]
  /\ \E pref \in Perms :
       Runs(AddOtherDequeCopy(Machine, d, src, pref),
            Called("AddOtherDeque(const&)", d, src, NoValue))
  /\ NoGhost

ActAddOtherDequeMove(d, src) ==
  /\ constructed[d] /\ constructed[src]
  /\ Runs(AddOtherDequeMove(Machine, d, src), Called("AddOtherDeque(&&)", d, src, NoValue))
  /\ NoGhost

ActClear(d) ==
  /\ constructed[d]
  /\ Runs(Clear(Machine, d), Called("Clear", d, "-", NoValue))
  /\ NoGhost

ActElementWrite(d, elem) ==
  /\ constructed[d]
  /\ \E back \in BOOLEAN :
       Runs(ElementWrite(Machine, d, elem, back), Called("GetFront() =", d, "-", elem))
  /\ NoGhost

\* The program starts with deque A default-constructed, B's storage not yet
\* holding an object, an empty heap and an iterator at A's end().
Init ==
  /\ head = [d \in Deq |-> NULL]
  /\ tail = [d \in Deq |-> NULL]
  /\ size = [d \in Deq |-> 0]
  /\ constructed = [d \in Deq |-> d = "A"]
  /\ value = [n \in Node |-> NoValue]
  /\ prev = [n \in Node |-> NULL]
  /\ next = [n \in Node |-> NULL]
  /\ allocated = {}
  /\ it = NoIter
  /\ status = "running"
  /\ op = Called("deque_t()", "A", "-", NoValue)
  /\ err = "none"
  /\ ret = NoRet
  /\ calls = [alloc |-> 0, del |-> 0, failed |-> FALSE, twice |-> FALSE,
              linked |-> FALSE]
  /\ ref = <<>>
  /\ pushed = 0
  /\ popped = 0
  /\ steps = 0
  /\ copied = FALSE
  /\ loop = NoLoop

\* Every operation of deque_t on either deque.
Next ==
  \/ \E d \in Deq : ActDefaultCtor(d)
  \/ \E d \in Deq : ActListCtor(d)
  \/ \E d, src \in Deq : ActCopyCtor(d, src)
  \/ \E d, src \in Deq : ActMoveCtor(d, src)
  \/ \E d \in Deq : ActDtor(d)
  \/ \E d, src \in Deq : ActCopyAssign(d, src)
  \/ \E d, src \in Deq : ActMoveAssign(d, src)
  \/ \E d \in Deq, elem \in Values : ActPushFront(d, elem)
  \/ \E d \in Deq, elem \in Values : ActPushBack(d, elem)
  \/ \E d \in Deq : ActPopFront(d)
  \/ \E d \in Deq : ActPopBack(d)
  \/ \E d \in Deq : ActGetFront(d)
  \/ \E d \in Deq : ActGetBack(d)
  \/ \E d, src \in Deq : ActAddOtherDequeCopy(d, src)
  \/ \E d, src \in Deq : ActAddOtherDequeMove(d, src)
  \/ \E d \in Deq : ActClear(d)
  \/ \E d \in Deq, elem \in Values : ActElementWrite(d, elem)

Spec == Init /\ [][Next]_vars

\* ------------------------------------------- one deque and an iterator

\* The deque of the single-deque specifications.
One == "A"

\* A call in a single-deque specification.
RunsOne(s, o) ==
  /\ status = "running"
  /\ ~s.oom
  /\ Finish(s, o)
  /\ UNCHANGED <<steps, loop>>

Returned == status' = "running" /\ err' = "none"

OnePushFront(elem) ==
  /\ pushed < MaxPushes
  /\ \E tmp \in Node \ allocated :
       RunsOne(PushFront(Machine, One, elem, tmp), Called("PushFront", One, "-", elem))
  /\ ref' = IF Returned THEN <<elem>> \o ref ELSE ref
  /\ pushed' = IF Returned THEN pushed + 1 ELSE pushed
  /\ UNCHANGED popped

OnePushBack(elem) ==
  /\ pushed < MaxPushes
  /\ \E tmp \in Node \ allocated :
       RunsOne(PushBack(Machine, One, elem, tmp), Called("PushBack", One, "-", elem))
  /\ ref' = IF Returned THEN Append(ref, elem) ELSE ref
  /\ pushed' = IF Returned THEN pushed + 1 ELSE pushed
  /\ UNCHANGED popped

OnePopFront ==
  /\ RunsOne(PopFront(Machine, One), Called("PopFront", One, "-", NoValue))
  /\ ref' = IF Returned THEN Tail(ref) ELSE ref
  /\ popped' = IF Returned THEN popped + 1 ELSE popped
  /\ UNCHANGED pushed

OnePopBack ==
  /\ RunsOne(PopBack(Machine, One), Called("PopBack", One, "-", NoValue))
  /\ ref' = IF Returned THEN SubSeq(ref, 1, Len(ref) - 1) ELSE ref
  /\ popped' = IF Returned THEN popped + 1 ELSE popped
  /\ UNCHANGED pushed

ItBegin(kind) ==
  /\ RunsOne(BeginOf(Machine, One, kind), Called("begin", One, "-", NoValue))
  /\ NoGhost

ItEnd(kind) ==
  /\ RunsOne(EndOf(Machine, One, kind), Called("end", One, "-", NoValue))
  /\ NoGhost

ItIncrement(post) ==
  /\ RunsOne(Increment(Machine, post),
             Called(IF post THEN "operator++(int)" ELSE "operator++", One, "-", NoValue))
  /\ NoGhost

ItDecrement(post) ==
  /\ RunsOne(Decrement(Machine, One, post),
             Called(IF post THEN "operator--(int)" ELSE "operator--", One, "-", NoValue))
  /\ NoGhost

ItDereference ==
  /\ RunsOne(Dereference(Machine), Called("operator*", One, "-", NoValue))
  /\ NoGhost

\* Pushes and pops on one deque, and an iterator over it.
NextOne ==
  \/ \E elem \in Values : OnePushFront(elem)
  \/ \E elem \in Values : OnePushBack(elem)
  \/ OnePopFront
  \/ OnePopBack
  \/ \E kind \in IterKinds : ItBegin(kind)
  \/ \E kind \in IterKinds : ItEnd(kind)
  \/ \E post \in BOOLEAN : ItIncrement(post)
  \/ \E post \in BOOLEAN : ItDecrement(post)
  \/ ItDereference

SpecOne == Init /\ [][NextOne]_vars

\* ------------------------------------------ one deque, malloc may fail

\* A push during which malloc returns NULL.
FailPushFront(elem) ==
  /\ status = "running"
  /\ Finish(PushFront(Machine, One, elem, NULL), Called("PushFront", One, "-", elem))
  /\ UNCHANGED <<steps, ref, pushed, popped, loop>>

FailPushBack(elem) ==
  /\ status = "running"
  /\ Finish(PushBack(Machine, One, elem, NULL), Called("PushBack", One, "-", elem))
  /\ UNCHANGED <<steps, ref, pushed, popped, loop>>

NextOOM ==
  \/ \E elem \in Values : OnePushFront(elem)
  \/ \E elem \in Values : OnePushBack(elem)
  \/ OnePopFront
  \/ OnePopBack
  \/ \E elem \in Values : FailPushFront(elem)
  \/ \E elem \in Values : FailPushBack(elem)

SpecOOM == Init /\ [][NextOOM]_vars

\* ------------------------------- two deques, copies round by round

\* A call of AddOtherDeque(deque_t const&) (assign = FALSE) or of
\* operator=(deque_t const&) (assign = TRUE) on deque d with argument src,
\* up to the start of its loop  for (auto& i : deque) PushBack(i);
\* operator= has called Clear(), the loop's iterator is deque.begin().
\* want is the argument's size at the time of the call.
LoopCall(d, src, assign) ==
  /\ status = "running"
  /\ loop.pc = "idle"
  /\ steps < MaxOps
  /\ constructed[d] /\ constructed[src]
  /\ LET s1 == IF assign THEN Clear(Machine, d) ELSE Machine
         s2 == IF Going(s1) THEN BeginOf(s1, src, "iterator") ELSE s1
     IN /\ Finish(s2, Called(IF assign THEN "operator=(const&)"
                                       ELSE "AddOtherDeque(const&)", d, src, NoValue))
        /\ loop' = IF Going(s2)
                   THEN [pc |-> "test", dst |-> d, want |-> size[src], pushes |-> 0]
                   ELSE NoLoop
  /\ steps' = steps + 1
  /\ NoGhost

\* One round of the loop: the test it != deque.end() holds, then *it,
\* PushBack of the element (malloc satisfies the request) and ++it.
LoopRound ==
  /\ status = "running"
  /\ loop.pc = "test"
  /\ it.curNode # NULL
  /\ \E tmp \in Node \ allocated :
       LET s1 == Dereference(Machine)
           s2 == IF Going(s1) THEN PushBack(s1, loop.dst, s1.ret.val, tmp) ELSE s1
           s3 == Increment(s2, FALSE)
       IN /\ Finish(s3, Called("PushBack", loop.dst, "-", NoValue))
          /\ loop' = IF Going(s3) THEN [loop EXCEPT !.pushes = @ + 1] ELSE NoLoop
  /\ UNCHANGED steps
  /\ NoGhost

\* The test it != deque.end() fails: the loop ends and the call returns.
LoopReturn ==
  /\ status = "running"
  /\ loop.pc = "test"
  /\ it.curNode = NULL
  /\ loop' = NoLoop
  /\ UNCHANGED <<head, tail, size, constructed, value, prev, next, allocated,
                 it, status, op, err, ret, calls, steps, copied>>
  /\ NoGhost

\* Two deques built by constructors, pushes and Clear, and the copying calls
\* run one loop round at a time.
NextLoop ==
  \/ \E d \in Deq : ActDefaultCtor(d)
  \/ \E d \in Deq, elem \in Values : ActPushBack(d, elem)
  \/ \E d \in Deq : ActClear(d)
  \/ \E d, src \in Deq, assign \in BOOLEAN : LoopCall(d, src, assign)
  \/ LoopRound
  \/ LoopReturn

SpecLoop == Init /\ [][NextLoop]_vars

\* ------------------------------------------------------------ observers

\* The nodes a walk meets that starts at node n and follows next until it
\* reaches nullptr, as the loop for (it = begin(); it != end(); ++it) does;
\* the walk is cut after fuel nodes.
RECURSIVE NodesFrom(_, _)
NodesFrom(n, fuel) ==
  IF n = NULL \/ fuel = 0 THEN <<>>
  ELSE <<n>> \o NodesFrom(next[n], fuel - 1)

\* One more node than the heap holds: a walk this long has met a node twice.
Chain(d) == NodesFrom(head[d], MaxNodes + 1)

\* The elements operator* yields along that walk.
Elements(d) == [i \in 1..Len(Chain(d)) |-> value[Chain(d)[i]]]

Alive(d) == status = "running" /\ constructed[d]

\* ---------------------------------------------------------------- claims

\* C1: for every sequence of PushFront, PushBack, PopFront and PopBack calls
\* on an initially empty deque, Size() is the number of elements pushed minus
\* the number popped, and the walk from begin() to end() yields exactly the
\* abstract list (PushFront prepends, PushBack appends, PopFront drops the
\* first, PopBack drops the last).
C1_SizeAndOrder ==
  status = "running" =>
    /\ Size(One) = pushed - popped
    /\ Elements(One) = ref

\* C1's case: pushes at both ends and a pop have left two different elements.
C1_Witness ==
  /\ status = "running"
  /\ pushed >= 3 /\ popped >= 1
  /\ Len(ref) = 2 /\ ref[1] # ref[2]
  /\ op.name = "PushFront"
  /\ Elements(One) = ref

\* C2: after every completed public operation head is null iff tail is null
\* iff size == 0 (IsEmpty() exactly when Size() == 0); size == 1 implies
\* head == tail; a non-empty deque has head->prev null and tail->next null.
C2_Boundary ==
  \A d \in Deq : Alive(d) =>
    /\ (head[d] = NULL) <=> (tail[d] = NULL)
    /\ (head[d] = NULL) <=> (size[d] = 0)
    /\ IsEmpty(d) <=> (Size(d) = 0)
    /\ size[d] = 1 => head[d] = tail[d]
    /\ head[d] # NULL => prev[head[d]] = NULL
    /\ tail[d] # NULL => next[tail[d]] = NULL

\* C3: after every completed public operation the nodes of a deque form a
\* simple acyclic doubly-linked chain: every node A of the chain whose next is
\* a node B has B.prev == A, and following next from head never meets a node
\* twice.
C3_Chain ==
  \A d \in Deq : Alive(d) =>
    LET c == Chain(d)
    IN /\ \A i, j \in 1..Len(c) : i # j => c[i] # c[j]
       /\ \A i \in 1..Len(c) : next[c[i]] # NULL => prev[next[c[i]]] = c[i]

\* C4: after every completed public operation the size field equals the
\* number of nodes reached by following next from head (0 when head is null).
C4_SizeIsLength ==
  \A d \in Deq : Alive(d) =>
    size[d] = Cardinality({Chain(d)[i] : i \in 1..Len(Chain(d))})

\* The nodes of deque d's chain.
ChainSet(d) == {Chain(d)[i] : i \in 1..Len(Chain(d))}

ForwardKinds == {"iterator", "const_iterator"}
IncNames == {"operator++", "operator++(int)"}
DecNames == {"operator--", "operator--(int)"}
HeapSame == UNCHANGED <<head, tail, size, value, prev, next, allocated>>

\* C5: on a deque with size == 0 each of GetFront(), GetBack(), PopFront()
\* and PopBack() signals "Deque is empty" and leaves head, tail and size
\* unchanged, without a call of the allocator.
C5_EmptySignals ==
  [][\A d \in Deq :
       (Alive(d) /\ size[d] = 0 /\ op'.deq = d
          /\ op'.name \in {"GetFront", "GetBack", "PopFront", "PopBack"})
       => /\ status' = "running"
          /\ err' = EmptyMsg
          /\ head'[d] = head[d] /\ tail'[d] = tail[d] /\ size'[d] = size[d]
          /\ calls'.alloc = 0 /\ calls'.del = 0]_vars

\* C6: when alloc yields no block, PushFront and PushBack signal an error to
\* the caller and leave head, tail, size and every node as they were, with
\* no write through the failed block.
C6_PushFailureAtomic ==
  [][(status = "running" /\ calls'.failed
        /\ op'.name \in {"PushFront", "PushBack"})
     => /\ status' = "running"
        /\ err' # "none"
        /\ HeapSame]_vars

\* C7: ++ (prefix or postfix) on an iterator or const_iterator at the
\* sentinel signals the end-iterator error and leaves it at the sentinel;
\* on a node of the chain it moves to that node's next, which from the tail
\* node is end().
C7_Advance ==
  [][(status = "running" /\ it.kind \in ForwardKinds /\ op'.name \in IncNames
        /\ (it.curNode = NULL \/ it.curNode \in ChainSet(One)))
     => /\ status' = "running"
        /\ IF it.curNode = NULL
           THEN err' = IncMsg(it.kind) /\ it' = it
           ELSE /\ err' = "none"
                /\ it' = [it EXCEPT !.curNode = next[it.curNode]]
                /\ it.curNode = tail[One] => it'.curNode = NULL]_vars

\* C7's case: ++ was called on an iterator at end() of a non-empty deque.
C7_Witness ==
  /\ status = "running"
  /\ op.name \in IncNames /\ it.kind \in ForwardKinds
  /\ err = IncMsg(it.kind) /\ it.curNode = NULL
  /\ head[One] # NULL

\* C8: -- (prefix or postfix) on an iterator or const_iterator equal to
\* end() of a non-empty deque moves it to the tail node, and no null pointer
\* is dereferenced on the way.
C8_RetreatFromEnd ==
  [][(status = "running" /\ it.kind \in ForwardKinds /\ op'.name \in DecNames
        /\ it.curNode = NULL /\ head[One] # NULL)
     => /\ status' = "running"
        /\ err' = "none"
        /\ it'.curNode = tail[One]]_vars

\* C9: -- on a forward iterator that references the head node signals the
\* begin-iterator error and leaves the iterator there; on any other node of
\* the chain it moves the iterator to that node's prev.
C9_Retreat ==
  [][(status = "running" /\ it.kind \in ForwardKinds /\ op'.name \in DecNames
        /\ it.curNode \in ChainSet(One))
     => /\ status' = "running"
        /\ IF it.curNode = head[One]
           THEN err' = BeginMsg /\ it' = it
           ELSE /\ err' = "none"
                /\ it' = [it EXCEPT !.curNode = prev[it.curNode]]]_vars

\* C9's case: -- was called on an iterator at the head of a deque of two or
\* more nodes.
C9_Witness ==
  /\ status = "running"
  /\ op.name \in DecNames /\ it.kind \in ForwardKinds
  /\ err = BeginMsg
  /\ it.curNode # NULL /\ it.curNode = head[One] /\ size[One] >= 2

\* C10: operator* of the three iterator classes at the sentinel signals an
\* error and reads no node; on a node of the chain it returns that node's
\* value; either way the iterator and the deque are unchanged.
C10_Dereference ==
  [][(status = "running" /\ op'.name = "operator*"
        /\ (it.curNode = NULL \/ it.curNode \in ChainSet(One)))
     => /\ status' = "running"
        /\ it' = it
        /\ HeapSame
        /\ IF it.curNode = NULL
           THEN err' = CEndMsg /\ ret' = NoRet
           ELSE /\ err' = "none"
                /\ ret' = [tag |-> "ref", node |-> it.curNode,
                           val |-> value[it.curNode]]]_vars

\* C10's case: operator* was called on a reverse_iterator at the sentinel of
\* a non-empty deque.
C10_Witness ==
  /\ status = "running"
  /\ op.name = "operator*" /\ it.kind = "reverse_iterator"
  /\ err = CEndMsg /\ it.curNode = NULL /\ ret = NoRet
  /\ head[One] # NULL

\* The nodes an iterator of class kind visits when it starts at node n and
\* is advanced by operator++ until it equals the sentinel (end(), cend() or
\* rend()); the walk is cut after fuel nodes.
RECURSIVE Walk(_, _, _)
Walk(kind, n, fuel) ==
  IF n = NULL \/ fuel = 0 THEN <<>>
  ELSE <<n>> \o Walk(kind, Forward(Machine, kind, n), fuel - 1)

\* The walk from begin(), cbegin() or rbegin() of deque d.
WalkOf(d, kind) == Walk(kind, BeginOf(Machine, d, kind).it.curNode, MaxNodes + 1)

\* The values operator* yields along a walk.
ValuesOf(w) == [i \in 1..Len(w) |-> value[w[i]]]

Reverse(q) == [i \in 1..Len(q) |-> q[Len(q) + 1 - i]]

\* C11: for every deque a sequence of operations reaches, the elements a
\* reverse_iterator visits from rbegin() to rend() are the reverse of those an
\* iterator visits from begin() to end(), and both walks take Size() steps.
C11_ReverseWalk ==
  \A d \in Deq : Alive(d) =>
    /\ ValuesOf(WalkOf(d, "reverse_iterator")) = Reverse(ValuesOf(WalkOf(d, "iterator")))
    /\ Len(WalkOf(d, "iterator")) = Size(d)
    /\ Len(WalkOf(d, "reverse_iterator")) = Size(d)

\* C12: the reverse_iterator is the forward iterator on the reversed chain:
\* rbegin() references tail and rend() is the sentinel; ++ at the sentinel
\* signals the end-iterator error and otherwise moves to the node's prev; --
\* on the tail node signals the begin-iterator error, on any other node moves
\* to its next, and from rend() of a non-empty deque moves to the head node
\* with no null pointer dereferenced.
C12_ReverseIterator ==
  [][status = "running" =>
       /\ (op'.name = "begin" /\ it'.kind = "reverse_iterator")
            => it'.curNode = tail[One]
       /\ (op'.name = "end" /\ it'.kind = "reverse_iterator")
            => it'.curNode = NULL
       /\ (op'.name \in IncNames /\ it.kind = "reverse_iterator"
             /\ (it.curNode = NULL \/ it.curNode \in ChainSet(One)))
            => /\ status' = "running"
               /\ IF it.curNode = NULL
                  THEN err' = CEndMsg /\ it' = it
                  ELSE err' = "none" /\ it'.curNode = prev[it.curNode]
       /\ (op'.name \in DecNames /\ it.kind = "reverse_iterator"
             /\ it.curNode \in ChainSet(One))
            => /\ status' = "running"
               /\ IF it.curNode = tail[One]
                  THEN err' = BeginMsg /\ it' = it
                  ELSE err' = "none" /\ it'.curNode = next[it.curNode]
       /\ (op'.name \in DecNames /\ it.kind = "reverse_iterator"
             /\ it.curNode = NULL /\ head[One] # NULL)
            => /\ status' = "running"
               /\ err' = "none"
               /\ it'.curNode = head[One]]_vars

\* The other of the two deques.
Other(d) == CHOOSE e \in Deq : e # d

\* C13: copy construction or copy assignment from a deque S into a distinct
\* deque D gives D the element sequence of S, in the same order, in freshly
\* allocated nodes none of which is a node of S; any later push, pop, Clear or
\* element write on D leaves S's element sequence, size and nodes unchanged,
\* and likewise with D and S exchanged.
C13_CopyIsolation ==
  [][status = "running" =>
       \A d \in Deq :
         /\ (op'.name \in CopyNames /\ op'.deq = d /\ op'.src = Other(d))
              => /\ status' = "running" /\ err' = "none"
                 /\ Elements(d)' = Elements(Other(d))
                 /\ ChainSet(d)' \subseteq allocated'
                 /\ ChainSet(d)' \cap ChainSet(Other(d))' = {}
                 /\ ChainSet(d)' \cap (allocated \ ChainSet(d)) = {}
         /\ (copied /\ op'.name \in MutNames /\ op'.deq = d)
              => /\ status' = "running"
                 /\ Elements(Other(d))' = Elements(Other(d))
                 /\ size'[Other(d)] = size[Other(d)]
                 /\ ChainSet(Other(d))' = ChainSet(Other(d))]_vars

MoveNames == {"deque_t(&&)", "operator=(&&)"}

\* C14: move construction or move assignment from a deque S into a deque D
\* leaves S valid-empty (head and tail null, size 0, IsEmpty() true) and D
\* holding S's former nodes and elements in order, with D's head, tail and
\* size those S had, without allocating; the nodes D owned before a move
\* assignment are released.
C14_MoveTransfers ==
  [][status = "running" =>
       \A d \in Deq :
         (op'.name \in MoveNames /\ op'.deq = d /\ op'.src = Other(d))
           => /\ status' = "running" /\ err' = "none"
              /\ head'[Other(d)] = NULL /\ tail'[Other(d)] = NULL
              /\ size'[Other(d)] = 0 /\ IsEmpty(Other(d))'
              /\ Chain(d)' = Chain(Other(d))
              /\ Elements(d)' = Elements(Other(d))
              /\ head'[d] = head[Other(d)] /\ tail'[d] = tail[Other(d)]
              /\ size'[d] = size[Other(d)]
              /\ calls'.alloc = 0
              /\ op'.name = "operator=(&&)" => ChainSet(d) \cap allocated' = {}]_vars

\* C15: copy assignment D = S leaves the source S with the element sequence
\* and the size it had before the call, for every S, the self-assignment
\* D = D included: the deque then still holds its original elements in order.
C15_CopyAssignKeepsSource ==
  [][status = "running" =>
       \A d, s \in Deq :
         (op'.name = "operator=(const&)" /\ op'.deq = d /\ op'.src = s)
           => /\ status' = "running" /\ err' = "none"
              /\ Elements(s)' = Elements(s)
              /\ size'[s] = size[s]]_vars

\* C16: for two distinct deques A and B in any state, A.AddOtherDeque(move B)
\* leaves A holding A's former elements followed by B's former elements, in
\* A's former nodes followed by B's, with A.size the sum of the two former
\* sizes, leaves B empty (head and tail null, size 0), and neither allocates
\* nor releases.
C16_MoveAppend ==
  [][status = "running" =>
       \A d \in Deq :
         (op'.name = "AddOtherDeque(&&)" /\ op'.deq = d /\ op'.src = Other(d))
           => /\ status' = "running" /\ err' = "none"
              /\ Chain(d)' = Chain(d) \o Chain(Other(d))
              /\ Elements(d)' = Elements(d) \o Elements(Other(d))
              /\ size'[d] = size[d] + size[Other(d)]
              /\ head'[Other(d)] = NULL /\ tail'[Other(d)] = NULL
              /\ size'[Other(d)] = 0
              /\ calls'.alloc = 0 /\ calls'.del = 0
              /\ allocated' = allocated]_vars

\* C17: for two distinct deques A and B, the copy form A.AddOtherDeque(B)
\* leaves A holding A's former elements followed by copies of B's elements in
\* order, the copies in newly allocated nodes, and leaves B untouched: B's
\* head, tail, size, nodes and element sequence are as before the call.
C17_CopyAppend ==
  [][status = "running" =>
       \A d \in Deq :
         (op'.name = "AddOtherDeque(const&)" /\ op'.deq = d /\ op'.src = Other(d))
           => /\ status' = "running" /\ err' = "none"
              /\ Elements(d)' = Elements(d) \o Elements(Other(d))
              /\ SubSeq(Chain(d)', 1, Len(Chain(d))) = Chain(d)
              /\ (ChainSet(d)' \ ChainSet(d)) \cap allocated = {}
              /\ ChainSet(d)' \subseteq allocated'
              /\ calls'.alloc = Len(Chain(Other(d)))
              /\ head'[Other(d)] = head[Other(d)]
              /\ tail'[Other(d)] = tail[Other(d)]
              /\ size'[Other(d)] = size[Other(d)]
              /\ Chain(Other(d))' = Chain(Other(d))
              /\ Elements(Other(d))' = Elements(Other(d))
              /\ \A n \in ChainSet(Other(d)) :
                   prev'[n] = prev[n] /\ next'[n] = next[n] /\ value'[n] = value[n]]_vars

\* C18: Clear() on a deque of any size leaves it empty (head and tail null,
\* size 0) after popping every element; on an already-empty deque it changes
\* no state, calls the allocator not at all and signals no error.
C18_Clear ==
  [][status = "running" =>
       \A d \in Deq :
         (op'.name = "Clear" /\ op'.deq = d)
           => /\ status' = "running" /\ err' = "none"
              /\ head'[d] = NULL /\ tail'[d] = NULL /\ size'[d] = 0
              /\ calls'.alloc = 0 /\ calls'.del = size[d]
              /\ ChainSet(d) \cap allocated' = {}
              /\ size[d] = 0 => (HeapSame /\ calls'.del = 0)]_vars

\* The live deques from whose head node n is reachable.
Owners(n) == {d \in Deq : constructed[d] /\ n \in ChainSet(d)}

\* C19: after every completed operation every node allocated and not yet
\* released is reachable from the head of exactly one live deque, no node is
\* released twice, and after a deque's destructor has run none of its nodes
\* remains allocated.
C19_Ownership ==
  [][status = "running" =>
       /\ ~calls'.twice
       /\ status' = "running" =>
            \A n \in allocated' : Cardinality(Owners(n)') = 1
       /\ \A d \in Deq :
            (op'.name = "~deque_t" /\ op'.deq = d)
              => status' = "running" /\ ChainSet(d) \cap allocated' = {}]_vars

\* A PushBack(x) has just returned and PopFront() is the next call.
BackThenFront ==
  /\ status = "running" /\ err = "none"
  /\ op.name = "PushBack" /\ op'.name = "PopFront"

\* A PushFront(x) on a deque of exactly one element has just returned and
\* PopBack() is the next call.
FrontThenBack ==
  /\ status = "running" /\ err = "none"
  /\ op.name = "PushFront" /\ op'.name = "PopBack"
  /\ size[One] = 2

\* C20 as stated: for every deque state and value x, PushBack(x) immediately
\* followed by PopFront() removes the element x and restores the size the
\* deque had before the push; PushFront(x) immediately followed by PopBack()
\* does likewise when the deque had exactly one element before the push.
C20_RoundTrip ==
  [][/\ BackThenFront
          => /\ status' = "running" /\ err' = "none"
             /\ size'[One] = size[One] - 1
             /\ tail[One] \notin allocated'
             /\ Chain(One)' = SubSeq(Chain(One), 1, Len(Chain(One)) - 1)
     /\ FrontThenBack
          => /\ status' = "running" /\ err' = "none"
             /\ size'[One] = size[One] - 1
             /\ head[One] \notin allocated'
             /\ Chain(One)' = Tail(Chain(One))]_vars

\* C20 amended: PushBack(x) then PopFront() restores the size and removes
\* the element then at the front, which is x only when the deque was empty
\* before the push; otherwise the former front element goes and x stays at
\* the back.  PushFront(x) then PopBack() on a deque of exactly one element
\* restores size 1 and removes that former element, leaving x alone.
C20_RoundTripAmended ==
  [][/\ BackThenFront
          => /\ status' = "running" /\ err' = "none"
             /\ size'[One] = size[One] - 1
             /\ head[One] \notin allocated'
             /\ Chain(One)' = Tail(Chain(One))
             /\ Elements(One)' = Tail(Elements(One))
             /\ tail[One] \notin allocated' <=> size[One] = 1
             /\ size[One] > 1 => tail'[One] = tail[One]
     /\ FrontThenBack
          => /\ status' = "running" /\ err' = "none"
             /\ size'[One] = 1
             /\ tail[One] \notin allocated'
             /\ Chain(One)' = <<head[One]>>
             /\ Elements(One)' = <<value[head[One]]>>]_vars

\* C20's cases: PopFront() has run right after PushBack(x) on a non-empty
\* deque, leaving x as the back element.
C20_Witness ==
  /\ status = "running" /\ err = "none"
  /\ op.name = "PopFront"
  /\ pushed >= 2 /\ popped = 1
  /\ size[One] = 1 /\ ref = Elements(One)
  /\ tail[One] \in allocated

\* C21: within PopFront and PopBack on a deque of at least two elements the
\* removed boundary node is unlinked before it is released: at the call of
\* del no node remaining in the chain has a prev or next link to it.
C21_UnlinkBeforeRelease ==
  [][(status = "running" /\ op'.name \in {"PopFront", "PopBack"}
        /\ size[One] >= 2)
     => /\ status' = "running" /\ err' = "none"
        /\ calls'.del = 1
        /\ ~calls'.linked]_vars

\* C22: every operation terminates when allocation always succeeds: Clear()
\* after exactly Size() pops, and the copy form of AddOtherDeque and copy
\* assignment after a number of PushBack calls equal to the argument's size
\* at the time of the call, for every argument, the deque itself included.
C22_Terminates ==
  [][status = "running" =>
       /\ \A d \in Deq :
            (op'.name = "Clear" /\ op'.deq = d)
              => status' = "running" /\ err' = "none" /\ calls'.del = size[d]
       /\ loop'.pushes <= loop'.want
       /\ (loop.pc = "test" /\ loop'.pc = "idle")
            => status' = "running" /\ loop.pushes = loop.want]_vars

====
